---------------------------- MODULE Spec2Model ----------------------------
(***************************************************************************)
(* A model of the ctydat crate (src/src/lib.rs): the CTY.DAT grammar        *)
(* (parser), the index build (Ctydat::from_str) and the callsign lookup     *)
(* (Ctydat::find_country_for_callsign with Country::implement_overrides).   *)
(*                                                                         *)
(* Text is a sequence of characters, each a one-character string.  The     *)
(* grammar is translated combinator by combinator, with the semantics of    *)
(* chumsky 0.x (ordered choice, greedy repetition that stops and rewinds    *)
(* at the first item that fails, no implicit end-of-input).                 *)
(***************************************************************************)
EXTENDS Integers, Sequences, FiniteSets, TLC

(***************************************************************************)
(* Characters                                                              *)
(***************************************************************************)
DigitChars == << "0", "1", "2", "3", "4", "5", "6", "7", "8", "9" >>

UpperChars ==
    << "A", "B", "C", "D", "E", "F", "G", "H", "I", "J", "K", "L", "M",
       "N", "O", "P", "Q", "R", "S", "T", "U", "V", "W", "X", "Y", "Z" >>

LowerChars ==
    << "a", "b", "c", "d", "e", "f", "g", "h", "i", "j", "k", "l", "m",
       "n", "o", "p", "q", "r", "s", "t", "u", "v", "w", "x", "y", "z" >>

Range(f) == { f[i] : i \in DOMAIN f }

\* U+212A KELVIN SIGN: not ASCII, and str::to_lowercase maps it to "k".
KelvinSign == "U+212A"

\* char::is_ascii_digit
is_ascii_digit == Range(DigitChars)

\* char::is_ascii_alphanumeric
is_ascii_alphanumeric == Range(DigitChars) \cup Range(UpperChars) \cup Range(LowerChars)

\* The printable ASCII punctuation the grammar and the sample texts use.
AsciiPunctuation ==
    { " ", ",", ";", ":", "=", "[", "]", "(", ")", "{", "}", "~", "<", ">",
      "/", "-", ".", "*" }

\* c.is_ascii() && !c.is_control() && *c != ':'
ascii_not_comma == (is_ascii_alphanumeric \cup AsciiPunctuation) \ { ":" }

\* c.is_ascii_digit() || *c == '-' || *c == '.'
ascii_float == is_ascii_digit \cup { "-", "." }

\* c.is_ascii_alphanumeric() || *c == '/'
dxcc_char == is_ascii_alphanumeric \cup { "/" }

\* char::is_whitespace, as chumsky's padded() uses it
is_whitespace == { " ", "\t", "\n", "\r" }

IndexOf(f, c) == CHOOSE i \in DOMAIN f : f[i] = c

\* char::to_ascii_lowercase
char_to_ascii_lowercase(c) ==
    IF c \in Range(UpperChars) THEN LowerChars[IndexOf(UpperChars, c)] ELSE c

\* char::to_lowercase: Unicode; on the alphabet here it differs from the
\* ASCII one on the Kelvin sign only.
char_to_lowercase(c) ==
    IF c = KelvinSign THEN "k" ELSE char_to_ascii_lowercase(c)

\* str::to_ascii_lowercase (TinyAsciiStr::to_ascii_lowercase)
to_ascii_lowercase(s) == [ i \in 1..Len(s) |-> char_to_ascii_lowercase(s[i]) ]

\* a lookup that forgets to fold the case of the callsign
to_lowercase_forgotten(s) == s

\* str::to_lowercase
to_lowercase(s) == [ i \in 1..Len(s) |-> char_to_lowercase(s[i]) ]

(***************************************************************************)
(* Parser results and the chumsky combinators the grammar is built from.   *)
(* A result is passed on as an operator argument, so that it is computed    *)
(* once.                                                                   *)
(***************************************************************************)
POk(pos, out) == [ ok |-> TRUE, pos |-> pos, out |-> out ]

PErr(pos) == [ ok |-> FALSE, pos |-> pos, out |-> << >> ]

\* a.or(b): the first alternative when it parses, else the second
Or(a, b) == IF a.ok THEN a ELSE b

\* filter(class).repeated(): the end of the longest run of class characters
\* starting at pos (greedy, never fails).
RECURSIVE RunEnd(_, _, _)
RunEnd(s, pos, class) ==
    IF pos <= Len(s) /\ s[pos] \in class THEN RunEnd(s, pos + 1, class) ELSE pos

\* the run from pos to end, as .at_least(min) and .collect() give it
collect(s, pos, end, min) ==
    IF end - pos < min THEN PErr(end) ELSE POk(end, SubSeq(s, pos, end - 1))

\* .exactly(max) stops the repetition after max items; max = -1: no maximum
at_most(pos, end, max) == IF max >= 0 /\ end - pos > max THEN pos + max ELSE end

\* filter(class).repeated().at_least(min).collect(), and .exactly(n) with
\* min = max = n
filter_repeated(s, pos, class, min, max) ==
    collect(s, pos, at_most(pos, RunEnd(s, pos, class), max), min)

\* just(c)
just(s, pos, c) ==
    IF pos <= Len(s) /\ s[pos] = c THEN POk(pos + 1, c) ELSE PErr(pos)

\* the whitespace after a padded parser's result r
pad_after(s, r) == IF r.ok THEN POk(RunEnd(s, r.pos, is_whitespace), r.out) ELSE r

\* just(c).padded(): whitespace is skipped before and after
just_padded(s, pos, c) == pad_after(s, just(s, RunEnd(s, pos, is_whitespace), c))

\* chumsky::text::newline(): "\r\n", "\n" or "\r"
newline(s, pos) ==
    IF pos + 1 <= Len(s) /\ s[pos] = "\r" /\ s[pos + 1] = "\n" THEN POk(pos + 2, "\n")
    ELSE IF pos <= Len(s) /\ s[pos] \in { "\n", "\r" } THEN POk(pos + 1, "\n")
    ELSE PErr(pos)

\* The value of a run of decimal digits.
RECURSIVE DigitsValue(_)
DigitsValue(t) ==
    IF t = << >> THEN 0
    ELSE 10 * DigitsValue(SubSeq(t, 1, Len(t) - 1)) + (IndexOf(DigitChars, t[Len(t)]) - 1)

\* str::parse::<u8>() on the digits d found at pos: an error when the value
\* does not fit the 8 bits
u8_from_str(pos, d, value) ==
    IF ~d.ok THEN d
    ELSE IF value > 255 THEN PErr(pos)
    ELSE POk(d.pos, value)

u8_from_digits(pos, d) == u8_from_str(pos, d, DigitsValue(d.out))

\* text::digits(10).try_map(|s, span| s.parse()): at least one digit
parse_u8(s, pos) == u8_from_digits(pos, filter_repeated(s, pos, is_ascii_digit, 1, -1))

RECURSIVE StripTrailingZeros(_)
StripTrailingZeros(t) ==
    IF t # << >> /\ t[Len(t)] = "0" THEN StripTrailingZeros(SubSeq(t, 1, Len(t) - 1)) ELSE t

\* the decimal n / 10^e, with no trailing zero, of the digits int.frac
decimal(neg, int, frac) ==
    [ n |-> IF neg THEN 0 - DigitsValue(int \o frac) ELSE DigitsValue(int \o frac),
      e |-> IF DigitsValue(int \o frac) = 0 THEN 0 ELSE Len(frac) ]

\* the unsigned part of a float: digits with at most one '.', which is at dot
\* (Len(body) + 1 when there is none), and at least one digit
f32_unsigned(neg, body, dots, dot) ==
    IF \/ Cardinality(dots) > 1
       \/ \E i \in 1..Len(body) : body[i] = "-"
       \/ Len(body) - Cardinality(dots) = 0
    THEN [ ok |-> FALSE, val |-> [ n |-> 0, e |-> 0 ] ]
    ELSE [ ok |-> TRUE,
           val |-> decimal(neg, SubSeq(body, 1, dot - 1),
                           StripTrailingZeros(SubSeq(body, dot + 1, Len(body)))) ]

f32_body(neg, body, dots) ==
    f32_unsigned(neg, body, dots,
                 IF dots = {} THEN Len(body) + 1 ELSE CHOOSE i \in dots : TRUE)

\* str::parse::<f32>() on a run of digits, '-' and '.': an optional leading
\* '-', then digits with at most one '.'.  The value is kept as a decimal (its
\* rounding to 24 bits is the same function of the decimal on every call).
f32_from_str(t) ==
    IF t # << >> /\ t[1] = "-"
    THEN f32_body(TRUE, Tail(t), { i \in 1..(Len(t) - 1) : t[i + 1] = "." })
    ELSE f32_body(FALSE, t, { i \in 1..Len(t) : t[i] = "." })

f32_parsed(pos, d, v) == IF v.ok THEN POk(d.pos, v.val) ELSE PErr(pos)

f32_from_run(pos, d) == f32_parsed(pos, d, f32_from_str(d.out))

\* filter(ascii_float).repeated().collect().try_map(|s, span| s.parse())
parse_f32(s, pos) == f32_from_run(pos, filter_repeated(s, pos, ascii_float, 0, -1))

\* TinyAsciiStr::<N>::from_str on ASCII text: an error when longer than N.
tiny_ascii_str(r, pos, N) ==
    IF ~r.ok THEN r
    ELSE IF Len(r.out) > N THEN PErr(pos)
    ELSE r

(***************************************************************************)
(* fn parser(): the grammar                                                *)
(***************************************************************************)
country_name(s, pos) == filter_repeated(s, pos, ascii_not_comma, 4, -1)

cq_zone(s, pos) == parse_u8(s, pos)

itu_zone(s, pos) == parse_u8(s, pos)

continent(s, pos) ==
    tiny_ascii_str(filter_repeated(s, pos, ascii_not_comma, 2, 2), pos, 2)

latitude(s, pos) == parse_f32(s, pos)

longitude(s, pos) == parse_f32(s, pos)

time_offset(s, pos) == parse_f32(s, pos)

primary_prefix(s, pos) ==
    tiny_ascii_str(filter_repeated(s, pos, ascii_not_comma, 1, -1), pos, 8)

\* let prefix = filter(alphanumeric or '/').repeated(): no minimum length
prefix(s, pos) == filter_repeated(s, pos, dxcc_char, 0, -1)

\* a.ignore_then(b) and a.then_ignore(b): b's result r after a's result
ignore_then(a, r) == IF a.ok THEN r ELSE a

then_ignore(a, r) == IF ~a.ok THEN a ELSE IF r.ok THEN POk(r.pos, a.out) ELSE r

\* a.then(b): the pair of the two outputs
then(a, r) == IF ~a.ok THEN a ELSE IF r.ok THEN POk(r.pos, << a.out, r.out >>) ELSE r

\* a.map(f), f given by its value on a's output
map(a, out) == IF a.ok THEN POk(a.pos, out) ELSE a

\* let callsign = just("=").ignore_then(prefix)
callsign_after(s, e) == ignore_then(e, prefix(s, e.pos))

callsign(s, pos) == callsign_after(s, just(s, pos, "="))

OverrideCqZone(v) == [ kind |-> "CqZone", cq_zone |-> v ]

OverrideItuZone(v) == [ kind |-> "ItuZone", itu_zone |-> v ]

OverrideContinent(v) == [ continent |-> v, kind |-> "Continent" ]

OverrideTimeOffset(v) == [ kind |-> "TimeOffset", time_offset |-> v ]

OverrideCoordinates(lat, lon) ==
    [ kind |-> "Coordinates", latitude |-> lat, longitude |-> lon ]

\* latitude.then_ignore(just('/')).then(longitude)
coordinates_lon(s, lat, slash) == then(lat, ignore_then(slash, longitude(s, slash.pos)))

coordinates_slash(s, lat) == coordinates_lon(s, lat, just(s, lat.pos, "/"))

coordinates(s, pos) == coordinates_slash(s, latitude(s, pos))

\* what stands between the delimiters of each alternative of over_ride
over_ride_inner(s, pos, open) ==
    CASE open = "[" -> cq_zone(s, pos)
      [] open = "(" -> itu_zone(s, pos)
      [] open = "{" -> continent(s, pos)
      [] open = "~" -> time_offset(s, pos)
      [] open = "<" -> coordinates(s, pos)

\* .map(Override::CqZone), .map(Override::ItuZone), ..: the variant each
\* alternative of over_ride builds from what stands between its delimiters
over_ride_variant(open, v) ==
    CASE open = "[" -> OverrideCqZone(v)
      [] open = "(" -> OverrideItuZone(v)
      [] open = "{" -> OverrideContinent(v)
      [] open = "~" -> OverrideTimeOffset(v)
      [] open = "<" -> OverrideCoordinates(v[1], v[2])

\* p.delimited_by(just(open), just(close)): o is the result of just(open), r
\* the result of p after it
delimited_close(s, r, close) == then_ignore(r, just(s, r.pos, close))

delimited_inner(s, o, open, close) ==
    ignore_then(o, delimited_close(s, over_ride_inner(s, o.pos, open), close))

delimited_mapped(open, r) == IF r.ok THEN map(r, over_ride_variant(open, r.out)) ELSE r

delimited_by(s, pos, open, close) ==
    delimited_mapped(open, delimited_inner(s, just(s, pos, open), open, close))

\* let over_ride = cq_zone.delimited_by(just('['), just(']')).map(Override::CqZone)
\*     .or(itu_zone.delimited_by(just('('), just(')')).map(Override::ItuZone))
\*     .or(continent .. '{' '}') .or(time_offset .. '~' '~') .or(.. '<' '>')
over_ride(s, pos) ==
    Or(delimited_by(s, pos, "[", "]"),
       Or(delimited_by(s, pos, "(", ")"),
          Or(delimited_by(s, pos, "{", "}"),
             Or(delimited_by(s, pos, "~", "~"),
                delimited_by(s, pos, "<", ">")))))

\* over_ride.repeated(): stops, without failing, at the first position where
\* no override parses
RECURSIVE over_ride_repeated(_, _, _)
over_ride_next(s, pos, acc, r) ==
    IF r.ok THEN over_ride_repeated(s, r.pos, Append(acc, r.out)) ELSE POk(pos, acc)

over_ride_repeated(s, pos, acc) == over_ride_next(s, pos, acc, over_ride(s, pos))

None == [ some |-> FALSE, val |-> << >> ]

Some(v) == [ some |-> TRUE, val |-> v ]

\* fn empty_is_none
empty_is_none(i) == IF i = << >> THEN None ELSE Some(i)

\* Option::unwrap_or_default
unwrap_or_default(o) == IF o.some THEN o.val ELSE << >>

PrefixCallsign(t, o) == [ kind |-> "Callsign", token |-> t, overrides |-> o ]

PrefixPrefix(t, o) == [ kind |-> "Prefix", token |-> t, overrides |-> o ]

\* .try_map(|(c, o), span| { TinyAsciiStr::from_str(&c)?; Prefix::..(c, empty_is_none(o)) })
\* on the token result t and the overrides result o after it
one_dxcc_try_map(pos, t, o, kind, N) ==
    IF ~t.ok THEN t
    ELSE IF ~tiny_ascii_str(t, pos, N).ok THEN PErr(pos)
    ELSE IF kind = "Callsign" THEN POk(o.pos, PrefixCallsign(t.out, empty_is_none(o.out)))
    ELSE POk(o.pos, PrefixPrefix(t.out, empty_is_none(o.out)))

\* token.then(over_ride.repeated())
one_dxcc_then(s, pos, t, kind, N) ==
    one_dxcc_try_map(pos, t, IF t.ok THEN over_ride_repeated(s, t.pos, << >>) ELSE t,
                     kind, N)

\* let one_dxcc = callsign.then(over_ride.repeated()).try_map(.. TinyAsciiStr<16> ..)
\*     .or(prefix.then(over_ride.repeated()).try_map(.. TinyAsciiStr<8> ..))
one_dxcc(s, pos) ==
    Or(one_dxcc_then(s, pos, callsign(s, pos), "Callsign", 16),
       one_dxcc_then(s, pos, prefix(s, pos), "Prefix", 8))

\* one_dxcc.padded()
one_dxcc_padded(s, pos) == pad_after(s, one_dxcc(s, RunEnd(s, pos, is_whitespace)))

\* the tail of .separated_by(just(',')): while a ',' and an item follow
RECURSIVE separated_by_rest(_, _, _)
separated_by_next(s, pos, acc, r) ==
    IF r.ok THEN separated_by_rest(s, r.pos, Append(acc, r.out)) ELSE POk(pos, acc)

separated_by_item(s, pos, acc, comma) ==
    separated_by_next(s, pos, acc,
                      IF comma.ok THEN one_dxcc_padded(s, comma.pos) ELSE comma)

separated_by_rest(s, pos, acc) == separated_by_item(s, pos, acc, just(s, pos, ","))

\* one_dxcc.padded().separated_by(just(',')): no item at all is an empty list
separated_by_first(s, pos, first) ==
    IF first.ok THEN separated_by_rest(s, first.pos, << first.out >>) ELSE POk(pos, << >>)

separated_by(s, pos) == separated_by_first(s, pos, one_dxcc_padded(s, pos))

\* let prefix_list = one_dxcc.padded().separated_by(just(',')).then_ignore(just(';'))
prefix_list_semi(s, items) == then_ignore(items, just(s, items.pos, ";"))

prefix_list(s, pos) == prefix_list_semi(s, separated_by(s, pos))

\* the 9 fields of one_country, in the order of the record
one_country_field(s, pos, k) ==
    CASE k = 1 -> country_name(s, pos)
      [] k = 2 -> cq_zone(s, pos)
      [] k = 3 -> itu_zone(s, pos)
      [] k = 4 -> continent(s, pos)
      [] k = 5 -> latitude(s, pos)
      [] k = 6 -> longitude(s, pos)
      [] k = 7 -> time_offset(s, pos)
      [] k = 8 -> primary_prefix(s, pos)
      [] k = 9 -> prefix_list(s, pos)

\* what follows field k: .then_ignore(just(':').padded()) after the first 8,
\* .then_ignore(newline()) after the alias list
one_country_separator(s, pos, k) ==
    IF k < 9 THEN just_padded(s, pos, ":") ELSE newline(s, pos)

\* .then(field k).then_ignore(separator): acc holds the fields before k
one_country_then(s, acc, r, k) ==
    IF ~r.ok THEN r
    ELSE map(then_ignore(r, one_country_separator(s, r.pos, k)), Append(acc.out, r.out))

RECURSIVE one_country_fields(_, _, _)
one_country_fields(s, acc, k) ==
    IF ~acc.ok \/ k > 9 THEN acc
    ELSE one_country_fields(s, one_country_then(s, acc, one_country_field(s, acc.pos, k), k),
                            k + 1)

\* .map(|value| { .. Country { country_name, cq_zone, .. } })
Country(value) ==
    [ country_name   |-> value[1],
      cq_zone        |-> value[2],
      itu_zone       |-> value[3],
      continent      |-> value[4],
      latitude       |-> value[5],
      longitude      |-> value[6],
      time_offset    |-> value[7],
      primary_prefix |-> value[8],
      prefix_list    |-> value[9] ]

one_country_map(r) == IF r.ok THEN map(r, Country(r.out)) ELSE r

\* let one_country = country_name.then_ignore(just(':').padded()).then(cq_zone) ..
\*     .then(prefix_list).then_ignore(newline()).map(|value| Country { .. })
one_country(s, pos) == one_country_map(one_country_fields(s, POk(pos, << >>), 1))

\* one_country.repeated(): records are taken while they parse; the first one
\* that does not ends the repetition, which rewinds to its start and succeeds
\* with the records before it
RECURSIVE one_country_repeated(_, _, _)
one_country_next(s, pos, acc, r) ==
    IF r.ok THEN one_country_repeated(s, r.pos, Append(acc, r.out)) ELSE POk(pos, acc)

one_country_repeated(s, pos, acc) == one_country_next(s, pos, acc, one_country(s, pos))

\* parser().parse(s): the result of one_country.repeated() from the start of
\* the text; nothing requires the end of the text to be reached
parser(s) == one_country_repeated(s, 1, << >>)

(***************************************************************************)
(* PatriciaMap, as far as the crate uses it: a finite map from byte strings *)
(***************************************************************************)
\* PatriciaMap::new
PatriciaMap_new == << >>

\* an insertion that keeps the value a key already has
insert_str_keep_first(trie, key, value) ==
    [ k \in (DOMAIN trie) \cup { key } |->
        IF k \in DOMAIN trie THEN trie[k] ELSE value ]

\* PatriciaMap::insert_str: the value of an existing key is replaced
insert_str(trie, key, value) ==
    [ k \in (DOMAIN trie) \cup { key } |-> IF k = key THEN value ELSE trie[k] ]

\* PatriciaMap::get
get(trie, key) == IF key \in DOMAIN trie THEN Some(trie[key]) ELSE None

\* PatriciaMap::get_longest_common_prefix: the entry of the longest key that
\* is a leading substring of the given one
\* a search that stops at the first, shortest, key that matches
longest_of_shortest(trie, key, lens) ==
    IF lens = {} THEN None
    ELSE Some(trie[SubSeq(key, 1, CHOOSE n \in lens : \A m \in lens : n <= m)])

longest_of(trie, key, lens) ==
    IF lens = {} THEN None
    ELSE Some(trie[SubSeq(key, 1, CHOOSE n \in lens : \A m \in lens : m <= n)])

get_longest_common_prefix(trie, key) ==
    longest_of(trie, key, { n \in 0..Len(key) : SubSeq(key, 1, n) \in DOMAIN trie })

(***************************************************************************)
(* Ctydat::from_str                                                        *)
(***************************************************************************)
\* for prefix_alias in prefix_list { match prefix_alias { .. } }: the aliases
\* of the country held at rc[country], from the i-th on, inserted in order
RECURSIVE insert_prefix_list(_, _, _, _)
insert_prefix_alias(tries, key, value, kind) ==
    IF kind = "Callsign"
    THEN [ tries EXCEPT !.callsign_trie = insert_str(@, key, value) ]
    ELSE [ tries EXCEPT !.prefix_trie = insert_str(@, key, value) ]

insert_prefix_list(tries, country, list, i) ==
    IF i > Len(list) THEN tries
    ELSE insert_prefix_list(
             insert_prefix_alias(tries, to_ascii_lowercase(list[i].token),
                                 [ country   |-> country,
                                   overrides |-> unwrap_or_default(list[i].overrides) ],
                                 list[i].kind),
             country, list, i + 1)

\* for mut country in countries.into_iter() { .. }: each country loses its
\* prefix_list and moves into a fresh Rc, rc[i], which its aliases refer to
RECURSIVE insert_countries(_, _, _)
insert_countries(acc, cs, i) ==
    IF i > Len(cs) THEN acc
    ELSE insert_countries(
             insert_prefix_list([ acc EXCEPT !.rc = Append(@, [ cs[i] EXCEPT
                                                                  !.prefix_list = << >> ]) ],
                                i, cs[i].prefix_list, 1),
             cs, i + 1)

\* Ctydat::from_str: Err when the parser fails, else the two tries
from_parsed(parsed) ==
    IF ~parsed.ok
    THEN [ ok |-> FALSE, countries |-> << >>, rc |-> << >>,
           callsign_trie |-> PatriciaMap_new, prefix_trie |-> PatriciaMap_new ]
    ELSE insert_countries([ ok |-> TRUE, countries |-> parsed.out, rc |-> << >>,
                            callsign_trie |-> PatriciaMap_new,
                            prefix_trie   |-> PatriciaMap_new ],
                          parsed.out, 1)

from_str(s) == from_parsed(parser(s))

(***************************************************************************)
(* Country::implement_overrides and Ctydat::find_country_for_callsign      *)
(***************************************************************************)
\* the CqZone arm writing the ITU zone field
apply_override_wrong_field(country, or) ==
    CASE or.kind = "Continent"   -> [ country EXCEPT !.continent = or.continent ]
      [] or.kind = "Coordinates" -> [ country EXCEPT !.latitude = or.latitude,
                                                     !.longitude = or.longitude ]
      [] or.kind = "CqZone"      -> [ country EXCEPT !.itu_zone = or.cq_zone ]
      [] or.kind = "ItuZone"     -> [ country EXCEPT !.itu_zone = or.itu_zone ]
      [] or.kind = "TimeOffset"  -> [ country EXCEPT !.time_offset = or.time_offset ]

\* match or { .. }: one override written into the copy
apply_override(country, or) ==
    CASE or.kind = "Continent"   -> [ country EXCEPT !.continent = or.continent ]
      [] or.kind = "Coordinates" -> [ country EXCEPT !.latitude = or.latitude,
                                                     !.longitude = or.longitude ]
      [] or.kind = "CqZone"      -> [ country EXCEPT !.cq_zone = or.cq_zone ]
      [] or.kind = "ItuZone"     -> [ country EXCEPT !.itu_zone = or.itu_zone ]
      [] or.kind = "TimeOffset"  -> [ country EXCEPT !.time_offset = or.time_offset ]

RECURSIVE apply_overrides_from(_, _, _)
apply_overrides_from(country, overrides, i) ==
    IF i > Len(overrides) THEN country
    ELSE apply_overrides_from(apply_override(country, overrides[i]), overrides, i + 1)

\* Country::implement_overrides: a clone with an empty prefix_list, then the
\* overrides in order
implement_overrides(self, overrides) ==
    apply_overrides_from([ self EXCEPT !.prefix_list = << >> ], overrides, 1)

\* Ctydat::find_country_for_callsign on the tries and the shared countries
\* a lookup that asks the prefix trie first
find_in_tries_prefix_first(shared, exact, longest) ==
    IF longest.some
    THEN Some(implement_overrides(shared[longest.val.country], longest.val.overrides))
    ELSE IF exact.some
    THEN Some(implement_overrides(shared[exact.val.country], exact.val.overrides))
    ELSE None

\* if let Some(..) = self.callsign_trie.get(..) { .. return } if let Some(..) =
\* self.prefix_trie.get_longest_common_prefix(..) { .. return } None
find_in_tries(shared, exact, longest) ==
    IF exact.some
    THEN Some(implement_overrides(shared[exact.val.country], exact.val.overrides))
    ELSE IF longest.some
    THEN Some(implement_overrides(shared[longest.val.country], longest.val.overrides))
    ELSE None

find_lowered(ct, pt, shared, lowered) ==
    find_in_tries(shared, get(ct, lowered), get_longest_common_prefix(pt, lowered))

find_country_for_callsign(ct, pt, shared, cs) ==
    find_lowered(ct, pt, shared, to_lowercase(cs))

(***************************************************************************)
(* The texts and callsigns the model runs on                               *)
(***************************************************************************)
\* the largest number of records in a file
MaxRecords == 2

\* the largest number of lookups made on one index
MaxCalls == 2

\* Peru:1:2:SA:3:4:5:
HeaderPeru ==
    << "P", "e", "r", "u", ":", "1", ":", "2", ":", "S", "A", ":", "3", ":", "4", ":",
       "5", ":" >>

\* Peru:1:2:SA:3:4:5:K:K,=K1A[5](7);\n
RecPeruK ==
    HeaderPeru \o << "K", ":", "K", ",", "=", "K", "1", "A", "[", "5", "]", "(", "7", ")",
                     ";", "\n" >>

\* Fiji: 3: 4: OC: -1.5: .5: 2.: KH6:\n kh6{EU}~-2~,=k1a<6/7>,K[9];\n
RecFiji ==
    << "F", "i", "j", "i", ":", " ", "3", ":", " ", "4", ":", " ", "O", "C", ":", " ",
       "-", "1", ".", "5", ":", " ", ".", "5", ":", " ", "2", ".", ":", " ", "K", "H",
       "6", ":", "\n", " ", "k", "h", "6", "{", "E", "U", "}", "~", "-", "2", "~", ",",
       "=", "k", "1", "a", "<", "6", "/", "7", ">", ",", "K", "[", "9", "]", ";", "\n" >>

\* Peru:1:2:SA:3:4:5:OA:KH6,KH6(8),=K;\n
RecPeruOA ==
    HeaderPeru \o << "O", "A", ":", "K", "H", "6", ",", "K", "H", "6", "(", "8", ")", ",",
                     "=", "K", ";", "\n" >>

\* Peru:x:2:SA:3:4:5:K:K;\n  (the CQ zone is not a number)
RecBadCq ==
    << "P", "e", "r", "u", ":", "x", ":", "2", ":", "S", "A", ":", "3", ":", "4", ":",
       "5", ":", "K", ":", "K", ";", "\n" >>

\* Peru:1:2:SA:3:4:5:K:K\n  (no terminating ';')
RecNoSemi == HeaderPeru \o << "K", ":", "K", "\n" >>

\* Peru:1:2:SA:3:4:5:K:K,;\n  (a trailing comma)
RecTrailingComma == HeaderPeru \o << "K", ":", "K", ",", ";", "\n" >>

\* Peru:1:2:SA:3:4:5:K:=;\n  (a bare '=')
RecBareEq == HeaderPeru \o << "K", ":", "=", ";", "\n" >>

\* Peru:1:2:SA:3:4:5:K:;\n  (an empty alias list)
RecEmptyList == HeaderPeru \o << "K", ":", ";", "\n" >>

\* records that break the record grammar
MalformedRecords == { RecBadCq, RecNoSemi }

\* records of the format, every alias token of which is a callsign or prefix
OrdinaryRecords == { RecPeruK, RecFiji, RecPeruOA }

\* records the grammar accepts although an alias token of theirs is empty
EmptyTokenRecords == { RecTrailingComma, RecBareEq, RecEmptyList }

\* records that follow the record grammar
WellFormedRecords == OrdinaryRecords \cup EmptyTokenRecords

SampleRecords == WellFormedRecords \cup MalformedRecords

Files == UNION { [ 1..n -> SampleRecords ] : n \in 0..MaxRecords }

RECURSIVE Text(_)
Text(f) == IF f = << >> THEN << >> ELSE Head(f) \o Text(Tail(f))

Callsigns ==
    { << "K", "1", "A" >>, << "k", "1", "a" >>, << "K", "H", "6", "A" >>, << "K" >>,
      << "O", "A" >>, << "N" >>, << KelvinSign, "H", "6" >>, << >> }

(***************************************************************************)
(* The program: a file is given to from_str once; the index it returns is   *)
(* then queried                                                            *)
(***************************************************************************)
VARIABLES
    file,           \* the records of the text given to from_str
    pc,             \* "start", then "built" (Ok) or "failed" (Err)
    countries,      \* what the parser returned (from_str's local countries)
    rc,             \* the shared countries, one Rc<Country> per record
    callsign_trie,  \* Ctydat.callsign_trie
    prefix_trie,    \* Ctydat.prefix_trie
    calls           \* the lookups made so far, each with what it returned

vars == << file, pc, countries, rc, callsign_trie, prefix_trie, calls >>

Init ==
    /\ file \in Files
    /\ pc = "start"
    /\ countries = << >>
    /\ rc = << >>
    /\ callsign_trie = PatriciaMap_new
    /\ prefix_trie = PatriciaMap_new
    /\ calls = << >>

\* what from_str returned, r, becomes the state
Returned(r) ==
    /\ pc' = IF r.ok THEN "built" ELSE "failed"
    /\ countries' = r.countries
    /\ rc' = r.rc
    /\ callsign_trie' = r.callsign_trie
    /\ prefix_trie' = r.prefix_trie

FromStr ==
    /\ pc = "start"
    /\ Returned(from_str(Text(file)))
    /\ UNCHANGED << file, calls >>

\* the entry a lookup of cs resolves through, if any
matched_entry(ct, pt, lowered) ==
    IF get(ct, lowered).some THEN get(ct, lowered)
    ELSE get_longest_common_prefix(pt, lowered)

\* the shared countries after the overrides of entry e were written into the
\* shared country itself
overridden_in_place(shared, e) ==
    IF e.some
    THEN [ shared EXCEPT ![e.val.country] = implement_overrides(@, e.val.overrides) ]
    ELSE shared

\* a lookup that applies the overrides to the shared country, not to a clone
FindCountryForCallsignInPlace(cs) ==
    /\ pc = "built"
    /\ Len(calls) < MaxCalls
    /\ calls' = Append(calls,
                       [ callsign |-> cs,
                         ret |-> find_country_for_callsign(callsign_trie, prefix_trie,
                                                           rc, cs) ])
    /\ rc' = overridden_in_place(rc, matched_entry(callsign_trie, prefix_trie,
                                                   to_lowercase(cs)))
    /\ UNCHANGED << file, pc, countries, callsign_trie, prefix_trie >>

\* find_country_for_callsign(&self, callsign): what it returns is recorded;
\* it takes the index by shared reference and writes nothing
FindCountryForCallsign(cs) ==
    /\ pc = "built"
    /\ Len(calls) < MaxCalls
    /\ calls' = Append(calls,
                       [ callsign |-> cs,
                         ret |-> find_country_for_callsign(callsign_trie, prefix_trie,
                                                           rc, cs) ])
    /\ UNCHANGED << file, pc, countries, rc, callsign_trie, prefix_trie >>

Next ==
    \/ FromStr
    \/ \E cs \in Callsigns : FindCountryForCallsign(cs)

Spec == Init /\ [][Next]_vars

(***************************************************************************)
(* What the claims speak of                                                *)
(***************************************************************************)
Lookups == 1..Len(calls)

\* the callsign of the i-th lookup, as the index is asked for it
Lowered(i) == to_lowercase(calls[i].callsign)

\* k is a leading substring of c
IsLeadingSubstring(k, c) == Len(k) <= Len(c) /\ SubSeq(c, 1, Len(k)) = k

\* the keys of the prefix index that are leading substrings of c
MatchingPrefixes(c) == { k \in DOMAIN prefix_trie : IsLeadingSubstring(k, c) }

\* the template of an index entry with the entry's override chain applied
Resolved(entry) == Some(implement_overrides(rc[entry.country], entry.overrides))

SameResult(a, b) == a.some = b.some /\ (a.some => a.val = b.val)

\* the chain names the fields of the given kind of override
Names(chain, kind) == \E j \in 1..Len(chain) : chain[j].kind = kind

\* the positions << record, alias >> of the parsed alias entries of a kind
AliasPositions(kind) ==
    UNION { { << i, j >> : j \in { j \in 1..Len(countries[i].prefix_list) :
                                     countries[i].prefix_list[j].kind = kind } } :
            i \in 1..Len(countries) }

AliasAt(p) == countries[p[1]].prefix_list[p[2]]

KeyAt(p) == to_ascii_lowercase(AliasAt(p).token)

\* p comes before q in file order
Before(p, q) == p[1] < q[1] \/ (p[1] = q[1] /\ p[2] < q[2])

TrieOf(kind) == IF kind = "Callsign" THEN callsign_trie ELSE prefix_trie

\* the first 8 fields as the sample records write them
FieldsWritten(r) ==
    IF r = RecFiji
    THEN [ country_name   |-> << "F", "i", "j", "i" >>,
           cq_zone        |-> 3,
           itu_zone       |-> 4,
           continent      |-> << "O", "C" >>,
           latitude       |-> [ n |-> -15, e |-> 1 ],
           longitude      |-> [ n |-> 5, e |-> 1 ],
           time_offset    |-> [ n |-> 2, e |-> 0 ],
           primary_prefix |-> << "K", "H", "6" >> ]
    ELSE [ country_name   |-> << "P", "e", "r", "u" >>,
           cq_zone        |-> 1,
           itu_zone       |-> 2,
           continent      |-> << "S", "A" >>,
           latitude       |-> [ n |-> 3, e |-> 0 ],
           longitude      |-> [ n |-> 4, e |-> 0 ],
           time_offset    |-> [ n |-> 5, e |-> 0 ],
           primary_prefix |-> IF r = RecPeruOA THEN << "O", "A" >> ELSE << "K" >> ]

FirstEightFields(c) ==
    [ country_name   |-> c.country_name,
      cq_zone        |-> c.cq_zone,
      itu_zone       |-> c.itu_zone,
      continent      |-> c.continent,
      latitude       |-> c.latitude,
      longitude      |-> c.longitude,
      time_offset    |-> c.time_offset,
      primary_prefix |-> c.primary_prefix ]

(***************************************************************************)
(* The claims                                                              *)
(***************************************************************************)

\* C1: when any record of the text is malformed (no terminating ';', or a CQ
\* zone that is not a number), alone or after well-formed records, from_str
\* returns an error and no index.
C1_MalformedInputRejected ==
    (pc # "start" /\ \E i \in 1..Len(file) : file[i] \in MalformedRecords)
        => pc = "failed"

\* C2: a lookup whose lowercased callsign is a key of the exact-callsign index
\* returns that entry's template with that entry's overrides applied, whatever
\* keys of the prefix index are leading substrings of the callsign.
C2_ExactMatchPrecedence ==
    \A i \in Lookups :
        Lowered(i) \in DOMAIN callsign_trie
            => calls[i].ret = Resolved(callsign_trie[Lowered(i)])

\* a lookup that hit the exact-callsign index while a key of the prefix index,
\* with another entry, was a leading substring of the callsign
C2_Witness ==
    \E i \in Lookups :
        /\ Lowered(i) \in DOMAIN callsign_trie
        /\ \E k \in MatchingPrefixes(Lowered(i)) :
               Resolved(prefix_trie[k]) # Resolved(callsign_trie[Lowered(i)])

\* C3: a lookup whose lowercased callsign is no key of the exact-callsign index
\* returns the template and overrides of the longest key of the prefix index
\* that is a leading substring of it, and no match exactly when there is none.
C3_LongestPrefixPrecedence ==
    \A i \in Lookups :
        Lowered(i) \notin DOMAIN callsign_trie
            => /\ (MatchingPrefixes(Lowered(i)) = {}) <=> ~calls[i].ret.some
               /\ \A k \in MatchingPrefixes(Lowered(i)) :
                      (\A k2 \in MatchingPrefixes(Lowered(i)) : Len(k2) <= Len(k))
                          => calls[i].ret = Resolved(prefix_trie[k])

\* a lookup through the prefix index with a shorter and a longer matching key
\* whose entries resolve differently
C3_Witness ==
    \E i \in Lookups :
        /\ Lowered(i) \notin DOMAIN callsign_trie
        /\ \E k, k2 \in MatchingPrefixes(Lowered(i)) :
               /\ Len(k) < Len(k2)
               /\ Resolved(prefix_trie[k]) # Resolved(prefix_trie[k2])

\* the record a lookup returned against the template of the entry it used: the
\* fields no override of the entry's chain names are the template's
FrameKept(r, t, chain) ==
    /\ r.country_name = t.country_name
    /\ r.primary_prefix = t.primary_prefix
    /\ r.prefix_list = t.prefix_list
    /\ ~Names(chain, "CqZone") => r.cq_zone = t.cq_zone
    /\ ~Names(chain, "ItuZone") => r.itu_zone = t.itu_zone
    /\ ~Names(chain, "Continent") => r.continent = t.continent
    /\ ~Names(chain, "TimeOffset") => r.time_offset = t.time_offset
    /\ ~Names(chain, "Coordinates")
           => r.latitude = t.latitude /\ r.longitude = t.longitude

\* the entry the i-th lookup resolved through (None when it matched nothing)
EntryOf(i) == matched_entry(callsign_trie, prefix_trie, Lowered(i))

\* C4: the record a lookup returns equals the template in every field that no
\* override of the chain names: CqZone touches cq_zone only, ItuZone itu_zone
\* only, Continent continent only, TimeOffset time_offset only, Coordinates
\* latitude and longitude only.
C4_OverridesTouchOnlyNamedFields ==
    \A i \in Lookups :
        EntryOf(i).some
            => /\ calls[i].ret.some
               /\ FrameKept(calls[i].ret.val, rc[EntryOf(i).val.country],
                            EntryOf(i).val.overrides)

\* a lookup through an entry whose overrides changed the record
C4_Witness ==
    \E i \in Lookups :
        /\ EntryOf(i).some
        /\ EntryOf(i).val.overrides # << >>
        /\ calls[i].ret.val # rc[EntryOf(i).val.country]

\* C5: for a well-formed single-record text, the lookup of the record's
\* primary prefix returns a match whose first 8 fields are the values written
\* in the text (every record has its primary prefix indexed).
C5_PrimaryPrefixRoundTrip ==
    (pc # "start" /\ Len(file) = 1 /\ file[1] \in OrdinaryRecords)
        => \A i \in Lookups :
               calls[i].callsign = FieldsWritten(file[1]).primary_prefix
                   => /\ calls[i].ret.some
                      /\ FirstEightFields(calls[i].ret.val) = FieldsWritten(file[1])

\* C6: two callsigns that differ only in the case of their ASCII letters get
\* identical results.
C6_CaseInsensitive ==
    \A i, j \in Lookups :
        to_ascii_lowercase(calls[i].callsign) = to_ascii_lowercase(calls[j].callsign)
            => SameResult(calls[i].ret, calls[j].ret)

\* two lookups, of callsigns that differ in case only, that returned a match
C6_Witness ==
    \E i, j \in Lookups :
        /\ calls[i].callsign # calls[j].callsign
        /\ to_ascii_lowercase(calls[i].callsign) = to_ascii_lowercase(calls[j].callsign)
        /\ calls[i].ret.some

\* C7: '[' digits ']' after an alias token is an ITU-zone override and '('
\* digits ')' a CQ-zone override: alias K[9] of the Fiji record (CQ 3, ITU 4)
\* resolves to itu_zone 9 and cq_zone 3, alias KH6(8) of the Peru record (CQ 1,
\* ITU 2) to cq_zone 8 and itu_zone 2.
C7_DelimiterToOverride ==
    /\ pc = "built"
           => \A p \in 1..Len(Text(file)) :
                  /\ (Text(file)[p] = "[" /\ over_ride(Text(file), p).ok)
                         => over_ride(Text(file), p).out.kind = "ItuZone"
                  /\ (Text(file)[p] = "(" /\ over_ride(Text(file), p).ok)
                         => over_ride(Text(file), p).out.kind = "CqZone"
    /\ \A i \in Lookups :
           /\ (file = << RecFiji >> /\ calls[i].callsign = << "K" >>)
                  => /\ calls[i].ret.some
                     /\ calls[i].ret.val.itu_zone = 9
                     /\ calls[i].ret.val.cq_zone = 3
           /\ (file = << RecPeruOA >> /\ calls[i].callsign = << "K", "H", "6", "A" >>)
                  => /\ calls[i].ret.some
                     /\ calls[i].ret.val.cq_zone = 8
                     /\ calls[i].ret.val.itu_zone = 2

\* C8: each index holds, for every lowercased token of its kind, exactly the
\* record and the override chain of the alias entry of that kind and token
\* that comes last in file order; the two kinds do not touch each other.
C8_LastWriteWins ==
    pc = "built"
        => /\ rc = [ i \in 1..Len(countries) |->
                       [ countries[i] EXCEPT !.prefix_list = << >> ] ]
           /\ \A kind \in { "Callsign", "Prefix" } :
                  /\ DOMAIN TrieOf(kind) = { KeyAt(p) : p \in AliasPositions(kind) }
                  /\ \A p \in AliasPositions(kind) :
                         (\A q \in AliasPositions(kind) :
                              KeyAt(q) = KeyAt(p) => ~Before(p, q))
                             => TrieOf(kind)[KeyAt(p)] =
                                    [ country   |-> p[1],
                                      overrides |->
                                          unwrap_or_default(AliasAt(p).overrides) ]

\* an index built from two alias entries of one kind and one token, of two
\* records, with different override chains
C8_Witness ==
    /\ pc = "built"
    /\ \E kind \in { "Callsign", "Prefix" } :
           \E p, q \in AliasPositions(kind) :
               /\ p[1] < q[1]
               /\ KeyAt(p) = KeyAt(q)
               /\ AliasAt(p).overrides # AliasAt(q).overrides

\* a callsign got the same result at every position of the sequence of lookups
SameResultEveryTime ==
    \A i, j \in Lookups :
        calls[i].callsign = calls[j].callsign => SameResult(calls[i].ret, calls[j].ret)

\* C9: no lookup changes the tries or a shared country, so a callsign gets the
\* same result at every position of a sequence of lookups.
C9_IndexImmutable ==
    /\ [][pc = "built" => /\ callsign_trie' = callsign_trie
                          /\ prefix_trie' = prefix_trie
                          /\ rc' = rc]_vars
    /\ []SameResultEveryTime

\* a lookup through an entry with overrides, then a lookup through another
\* alias of the same country
C9_Witness ==
    /\ Len(calls) = 2
    /\ EntryOf(1).some
    /\ EntryOf(2).some
    /\ EntryOf(1).val.overrides # << >>
    /\ EntryOf(2).val.country = EntryOf(1).val.country
    /\ Lowered(1) # Lowered(2)
    /\ calls[1].ret.val # calls[2].ret.val

\* C10: every key of the exact-callsign index and of the prefix index is a
\* non-empty string, whatever text the parser accepted.
C10_KeysNonEmpty ==
    pc = "built" => /\ << >> \notin DOMAIN callsign_trie
                    /\ << >> \notin DOMAIN prefix_trie

=============================================================================
